---------------------------- MODULE Spec2Model ----------------------------
(***************************************************************************)
(* Model of locustfile.py: the MigrationUser load-test user.  Each user    *)
(* repeatedly runs the task run_migration (build the payload, serialise   *)
(* it with json.dumps, POST it to /api/migration) and then waits          *)
(* between(1, 2) seconds.                                                  *)
(***************************************************************************)
EXTENDS Integers, Sequences, FiniteSets, TLC

(***************************************************************************)
(* Bounds of the model.                                                    *)
(***************************************************************************)
\* clock ticks per second: the grain at which the wait in [1, 2] s is drawn
TicksPerSecond == 2
\* invocations of run_migration one user makes before the model stops it
MaxInvocations == 2

\* the simulated users the framework runs concurrently
Users == {"u1", "u2"}
\* target hosts the framework may be configured with
BaseUrls == {"http://localhost:8080", "http://staging.test"}

(***************************************************************************)
(* Program constants.                                                      *)
(***************************************************************************)
\* wait_time = between(1, 2)
WaitMin == 1
WaitMax == 2

\* how a request can end: client.post returns a response object in each case
Outcomes == {"2xx", "non2xx", "timeout", "connection_failure"}
Failures == Outcomes \ {"2xx"}

(***************************************************************************)
(* run_migration, lines 11-16: the payload dict.  A Python dict keeps the  *)
(* insertion order of its keys, so it is a sequence of <<key, value>>.     *)
(***************************************************************************)
\* the payload with a field left out
PayloadWithoutDestination ==
    << <<"input", "CSV">>,
       <<"output", "CSV">>,
       <<"csv_source_file_name", "sample.csv">> >>

Payload ==
    << <<"input", "CSV">>,
       <<"output", "CSV">>,
       <<"csv_source_file_name", "sample.csv">>,
       <<"csv_destination_file_name", "destination_file.csv">> >>

(***************************************************************************)
(* json.dumps with its default arguments.  A str is written between double *)
(* quotes with the quote and the backslash escaped; the items of a dict    *)
(* are joined by the default item separator ", " and key and value by the  *)
(* default key separator ": ".                                             *)
(***************************************************************************)
RECURSIVE EscapeStr(_)
EscapeStr(s) ==
    IF Len(s) = 0 THEN ""
    ELSE LET c == SubSeq(s, 1, 1)
             e == IF c = "\"" THEN "\\\""
                  ELSE IF c = "\\" THEN "\\\\"
                  ELSE c
         IN  e \o EscapeStr(SubSeq(s, 2, Len(s)))

EncodeStr(s) == "\"" \o EscapeStr(s) \o "\""

ItemSeparator == ", "
KeySeparator == ": "

RECURSIVE EncodeItems(_, _, _)
EncodeItems(items, itemSep, keySep) ==
    IF Len(items) = 0 THEN ""
    ELSE LET first == EncodeStr(items[1][1]) \o keySep \o EncodeStr(items[1][2])
         IN  IF Len(items) = 1 THEN first
             ELSE first \o itemSep \o EncodeItems(Tail(items), itemSep, keySep)

JsonDumpsCompact(obj) == "{" \o EncodeItems(obj, ",", ":") \o "}"

JsonDumps(obj) == "{" \o EncodeItems(obj, ItemSeparator, KeySeparator) \o "}"


(***************************************************************************)
(* Reading a body back as the receiving endpoint does (a JSON parser for   *)
(* an object of string members): white space is skipped between tokens,    *)
(* the result is the sequence of <<key, value>> members, or Malformed.     *)
(***************************************************************************)
Malformed == << "malformed" >>

CharAt(s, i) == IF i >= 1 /\ i <= Len(s) THEN SubSeq(s, i, i) ELSE ""

RECURSIVE SkipWs(_, _)
SkipWs(s, i) ==
    IF CharAt(s, i) \in {" ", "\n", "\t", "\r"} THEN SkipWs(s, i + 1) ELSE i

\* the characters of a string literal whose opening quote is before i:
\* [ok, val, next], next the index after the closing quote
RECURSIVE ScanStr(_, _, _)
ScanStr(s, i, acc) ==
    LET c == CharAt(s, i)
    IN  IF c = "" THEN [ok |-> FALSE, val |-> acc, next |-> i]
        ELSE IF c = "\"" THEN [ok |-> TRUE, val |-> acc, next |-> i + 1]
        ELSE IF c = "\\"
             THEN IF CharAt(s, i + 1) \in {"\"", "\\"}
                  THEN ScanStr(s, i + 2, acc \o CharAt(s, i + 1))
                  ELSE [ok |-> FALSE, val |-> acc, next |-> i]
        ELSE ScanStr(s, i + 1, acc \o c)

ParseStr(s, i) ==
    IF CharAt(s, i) = "\"" THEN ScanStr(s, i + 1, "")
    ELSE [ok |-> FALSE, val |-> "", next |-> i]

\* members from index i on, after "{" or ","
RECURSIVE ParseMembers(_, _, _)
ParseMembers(s, i, acc) ==
    LET k  == ParseStr(s, SkipWs(s, i))
        c  == SkipWs(s, k.next)
        v  == ParseStr(s, SkipWs(s, c + 1))
        e  == SkipWs(s, v.next)
    IN  IF ~ k.ok \/ CharAt(s, c) # ":" \/ ~ v.ok THEN Malformed
        ELSE IF CharAt(s, e) = ","
             THEN ParseMembers(s, e + 1, Append(acc, <<k.val, v.val>>))
        ELSE IF CharAt(s, e) = "}" /\ SkipWs(s, e + 1) = Len(s) + 1
             THEN Append(acc, <<k.val, v.val>>)
        ELSE Malformed

JsonLoads(s) ==
    LET b == SkipWs(s, 1)
    IN  IF CharAt(s, b) # "{" THEN Malformed
        ELSE IF CharAt(s, SkipWs(s, b + 1)) = "}"
             THEN IF SkipWs(s, SkipWs(s, b + 1) + 1) = Len(s) + 1
                  THEN << >> ELSE Malformed
        ELSE ParseMembers(s, b + 1, << >>)

(***************************************************************************)
(* run_migration, line 19: self.client.post(path, data=..., headers=...).  *)
(* The client is bound to the user's base URL and joins it with the        *)
(* relative path.                                                          *)
(***************************************************************************)
\* the request sent with another verb
MethodPut == "PUT"

Method == "POST"
Path == "/api/migration"
\* the headers argument left to the client's default for a str body
HeadersFormDefault == [h \in {"Content-Type"} |-> "application/x-www-form-urlencoded"]

Headers == [h \in {"Content-Type"} |-> "application/json"]

\* data=json.dumps(payload)
Body == JsonDumps(Payload)

BuildRequest(base) ==
    [method  |-> Method,
     path    |-> Path,
     url     |-> base \o Path,
     headers |-> Headers,
     body    |-> Body]

\* the post issued twice by one call
RequestsOfInvocationTwice(base) == << BuildRequest(base), BuildRequest(base) >>

\* requests one call of run_migration hands to the client: the single post
RequestsOfInvocation(base) == << BuildRequest(base) >>

\* a failed request retried at once, without the wait
AfterResponseRetry(outcome) == IF outcome = "2xx" THEN "waiting" ELSE "ready"

\* a failed request raised as an error that ends the user
AfterResponseCrash(outcome) == IF outcome = "2xx" THEN "waiting" ELSE "crashed"

\* what the task does with the response of client.post: the return value is
\* dropped, no status check, no retry, no exception raised; the task returns
\* and the user goes on to its wait whatever the outcome was
AfterResponse(outcome) == "waiting"

\* wait_time = between(1, 2): a duration drawn from [WaitMin, WaitMax] seconds
Between(lo, hi) == (lo * TicksPerSecond) .. (hi * TicksPerSecond)

\* the range written between(0, 2)
WaitTimeFromZero == Between(0, WaitMax)

WaitTime == Between(WaitMin, WaitMax)

(***************************************************************************)
(* State.                                                                  *)
(***************************************************************************)
VARIABLES
    host,         \* base URL the framework configured for the run
    pc,           \* per user: "ready", "in_flight", "waiting", "stopped"
    sent,         \* per user: the requests handed to the client, in order
    in_flight,    \* per user: requests sent whose response has not come back
    invocations,  \* per user: calls of run_migration so far
    completed,    \* per user: calls of run_migration that have returned
    failed,       \* per user: how many of those ended in a failure
    wait,         \* per user: the wait drawn after the last invocation (ticks)
    elapsed,      \* per user: ticks slept since the last invocation returned
    stored        \* state the task keeps beyond one invocation (none is written)

vars == <<host, pc, sent, in_flight, invocations, completed, failed, wait, elapsed, stored>>

Init ==
    /\ host \in BaseUrls
    /\ pc = [u \in Users |-> "ready"]
    /\ sent = [u \in Users |-> << >>]
    /\ in_flight = [u \in Users |-> 0]
    /\ invocations = [u \in Users |-> 0]
    /\ completed = [u \in Users |-> 0]
    /\ failed = [u \in Users |-> 0]
    /\ wait = [u \in Users |-> 0]
    /\ elapsed = [u \in Users |-> 0]
    /\ stored = << >>

\* the user's turn has come: it was just spawned, or its wait has run out
Due(u) ==
    \/ pc[u] = "ready"
    \/ pc[u] = "waiting" /\ elapsed[u] >= wait[u]

\* run_migration that fires the post without waiting for its response
RunMigrationNoBlock(u) ==
    /\ Due(u)
    /\ invocations[u] < MaxInvocations
    /\ invocations' = [invocations EXCEPT ![u] = @ + 1]
    /\ sent' = [sent EXCEPT ![u] = @ \o RequestsOfInvocation(host)]
    /\ in_flight' = [in_flight EXCEPT ![u] = @ + Len(RequestsOfInvocation(host))]
    /\ pc' = [pc EXCEPT ![u] = "waiting"]
    /\ completed' = [completed EXCEPT ![u] = @ + 1]
    /\ \E d \in WaitTime : wait' = [wait EXCEPT ![u] = d]
    /\ elapsed' = [elapsed EXCEPT ![u] = 0]
    /\ UNCHANGED <<host, failed, stored>>

\* run_migration that keeps its payload in an attribute of the class
RunMigrationKeepsPayload(u) ==
    /\ Due(u)
    /\ invocations[u] < MaxInvocations
    /\ invocations' = [invocations EXCEPT ![u] = @ + 1]
    /\ sent' = [sent EXCEPT ![u] = @ \o RequestsOfInvocation(host)]
    /\ in_flight' = [in_flight EXCEPT ![u] = @ + Len(RequestsOfInvocation(host))]
    /\ pc' = [pc EXCEPT ![u] = "in_flight"]
    /\ stored' = Append(stored, <<u, Payload>>)
    /\ UNCHANGED <<host, completed, failed, wait, elapsed>>

(***************************************************************************)
(* The framework calls run_migration for user u: the payload is built as a *)
(* local, serialised, and posted; the call blocks until the response.      *)
(***************************************************************************)
RunMigration(u) ==
    /\ Due(u)
    /\ invocations[u] < MaxInvocations
    /\ invocations' = [invocations EXCEPT ![u] = @ + 1]
    /\ sent' = [sent EXCEPT ![u] = @ \o RequestsOfInvocation(host)]
    /\ in_flight' = [in_flight EXCEPT ![u] = @ + Len(RequestsOfInvocation(host))]
    /\ pc' = [pc EXCEPT ![u] = "in_flight"]
    /\ UNCHANGED <<host, completed, failed, wait, elapsed, stored>>

(***************************************************************************)
(* client.post returns for user u with some outcome; run_migration drops   *)
(* the response and returns, and the user draws its wait_time.             *)
(***************************************************************************)
PostReturns(u, outcome) ==
    /\ pc[u] = "in_flight"
    /\ completed' = [completed EXCEPT ![u] = @ + 1]
    /\ failed' = [failed EXCEPT ![u] = IF outcome \in Failures THEN @ + 1 ELSE @]
    /\ in_flight' = [in_flight EXCEPT ![u] = @ - 1]
    /\ pc' = [pc EXCEPT ![u] = AfterResponse(outcome)]
    /\ \E d \in WaitTime : wait' = [wait EXCEPT ![u] = d]
    /\ elapsed' = [elapsed EXCEPT ![u] = 0]
    /\ UNCHANGED <<host, sent, invocations, stored>>

(***************************************************************************)
(* Time passes by one tick.  A sleeping user is woken when its wait has    *)
(* run out, so the clock does not pass a user whose turn has come.         *)
(***************************************************************************)
Sleeping(u) == pc[u] = "waiting" /\ elapsed[u] < wait[u]

Tick ==
    /\ \E u \in Users : Sleeping(u)
    /\ \A u \in Users : ~ (Due(u) /\ invocations[u] < MaxInvocations)
    /\ elapsed' = [u \in Users |->
                     IF Sleeping(u) THEN elapsed[u] + 1 ELSE elapsed[u]]
    /\ UNCHANGED <<host, pc, sent, in_flight, invocations, completed, failed,
                   wait, stored>>

(***************************************************************************)
(* The framework stops user u (end of the test run): a request in flight   *)
(* is aborted, a sleep is cancelled, the user runs no more.                *)
(***************************************************************************)
StopUser(u) ==
    /\ pc[u] # "stopped"
    /\ pc' = [pc EXCEPT ![u] = "stopped"]
    /\ in_flight' = [in_flight EXCEPT ![u] = 0]
    /\ wait' = [wait EXCEPT ![u] = 0]
    /\ elapsed' = [elapsed EXCEPT ![u] = 0]
    /\ UNCHANGED <<host, sent, invocations, completed, failed, stored>>

Next ==
    \/ \E u \in Users : RunMigration(u)
    \/ \E u \in Users, o \in Outcomes : PostReturns(u, o)
    \/ Tick
    \/ \E u \in Users : StopUser(u)

Spec == Init /\ [][Next]_vars

(***************************************************************************)
(* The same program under the scheduling the framework gives it: a user    *)
(* whose turn has come is run, a request in flight returns, time passes.   *)
(* Nothing obliges the framework to stop a user.                           *)
(***************************************************************************)
Fairness ==
    /\ \A u \in Users : WF_vars(RunMigration(u))
    /\ \A u \in Users : WF_vars(\E o \in Outcomes : PostReturns(u, o))
    /\ WF_vars(Tick)

LiveSpec == Init /\ [][Next]_vars /\ Fairness


(***************************************************************************)
(* Vocabulary of the properties.                                           *)
(***************************************************************************)
\* one element per call of run_migration made so far
Calls == UNION {{<<u, i>> : i \in 1 .. invocations[u]} : u \in Users}

\* one element per request sent so far
Posts == UNION {{<<u, i>> : i \in 1 .. Len(sent[u])} : u \in Users}

RequestAt(p) == sent[p[1]][p[2]]

LocalBase == "http://localhost:8080"

CompactBody ==
    "{\"input\":\"CSV\",\"output\":\"CSV\",\"csv_source_file_name\":\"sample.csv\",\"csv_destination_file_name\":\"destination_file.csv\"}"

SpacedBody ==
    "{\"input\": \"CSV\", \"output\": \"CSV\", \"csv_source_file_name\": \"sample.csv\", \"csv_destination_file_name\": \"destination_file.csv\"}"

FourFields ==
    { <<"input", "CSV">>,
      <<"output", "CSV">>,
      <<"csv_source_file_name", "sample.csv">>,
      <<"csv_destination_file_name", "destination_file.csv">> }

\* the body the task sends, as the endpoint reads it
BodyAsReceived == JsonLoads(Body)

\* the members of a sequence of pairs, as a set
Members(obj) == {obj[i] : i \in DOMAIN obj}

\* what user u can be seen to be doing
View(u) == <<pc[u], sent[u], in_flight[u], invocations[u], completed[u],
             failed[u], wait[u], elapsed[u]>>

\* user u starts an invocation in this step
Starts(u) == invocations'[u] # invocations[u]

\* an invocation of user u returns in this step
Returns(u) == completed'[u] # completed[u]

(***************************************************************************)
(* C1, as stated: with base URL http://localhost:8080, one invocation of   *)
(* run_migration sends exactly one request, a POST to                      *)
(* http://localhost:8080/api/migration, whose body is the JSON text with   *)
(* no white space between its tokens.                                      *)
(***************************************************************************)
C1_OnePostCompactBody ==
    (host = LocalBase /\ Cardinality(Calls) = 1) =>
        /\ Cardinality(Posts) = 1
        /\ \A p \in Posts :
              /\ RequestAt(p).method = "POST"
              /\ RequestAt(p).url = "http://localhost:8080/api/migration"
              /\ RequestAt(p).body = CompactBody

(***************************************************************************)
(* C1, amended: with base URL http://localhost:8080, one invocation of     *)
(* run_migration sends exactly one request, a POST to                      *)
(* http://localhost:8080/api/migration, whose body is the text json.dumps  *)
(* writes by default: the four keys in order, one space after each colon   *)
(* and after each comma.                                                   *)
(***************************************************************************)
C1_OnePostSpacedBody ==
    (host = LocalBase /\ Cardinality(Calls) = 1) =>
        /\ Cardinality(Posts) = 1
        /\ \A p \in Posts :
              /\ RequestAt(p).method = "POST"
              /\ RequestAt(p).url = "http://localhost:8080/api/migration"
              /\ RequestAt(p).body = SpacedBody

C1_Witness ==
    /\ host = LocalBase
    /\ Cardinality(Calls) = 1
    /\ Cardinality(Posts) = 1

(***************************************************************************)
(* C2: in every reachable state, every request ever sent by any user has   *)
(* method POST and path /api/migration, whatever requests and responses    *)
(* came before.                                                            *)
(***************************************************************************)
C2_AlwaysPostToMigration ==
    \A p \in Posts :
        /\ RequestAt(p).method = "POST"
        /\ RequestAt(p).path = "/api/migration"
        /\ RequestAt(p).url = host \o "/api/migration"

C2_Witness ==
    \E u \in Users :
        /\ failed[u] >= 1
        /\ completed[u] > failed[u]
        /\ Len(sent[u]) >= 2
        /\ \E v \in Users \ {u} : Len(sent[v]) >= 1

(***************************************************************************)
(* C3: the body of every request, read back as JSON, is an object with     *)
(* exactly the four fields input=CSV, output=CSV,                          *)
(* csv_source_file_name=sample.csv,                                        *)
(* csv_destination_file_name=destination_file.csv, and the bodies of any   *)
(* two invocations, of the same user or of different users, are the same   *)
(* text.                                                                   *)
(***************************************************************************)
C3_BodyFixed ==
    /\ \A p, q \in Posts : RequestAt(p).body = RequestAt(q).body
    /\ \A p \in Posts : RequestAt(p).body = Body
    /\ Posts # {} =>
          /\ BodyAsReceived # Malformed
          /\ Len(BodyAsReceived) = 4
          /\ Members(BodyAsReceived) = FourFields

C3_Witness ==
    \E u \in Users :
        /\ Len(sent[u]) >= 2
        /\ \E v \in Users \ {u} : Len(sent[v]) >= 1

(***************************************************************************)
(* C4: the headers passed with every request are Content-Type, with the    *)
(* value application/json, and nothing else.                               *)
(***************************************************************************)
C4_ContentTypeJson ==
    \A p \in Posts :
        /\ DOMAIN RequestAt(p).headers = {"Content-Type"}
        /\ RequestAt(p).headers["Content-Type"] = "application/json"

C4_Witness ==
    \A u \in Users : Len(sent[u]) >= 1 /\ completed[u] >= 1

(***************************************************************************)
(* C5: after N invocations of run_migration exactly N requests have been   *)
(* sent, one per invocation, and the N requests are identical in method,   *)
(* path, headers and body.                                                 *)
(***************************************************************************)
C5_OneRequestPerInvocation ==
    /\ \A u \in Users : Len(sent[u]) = invocations[u]
    /\ Cardinality(Posts) = Cardinality(Calls)
    /\ \A p, q \in Posts :
          /\ RequestAt(p).method = RequestAt(q).method
          /\ RequestAt(p).path = RequestAt(q).path
          /\ RequestAt(p).headers = RequestAt(q).headers
          /\ RequestAt(p).body = RequestAt(q).body

C5_Witness ==
    /\ \A u \in Users : invocations[u] = MaxInvocations
    /\ Cardinality(Posts) = MaxInvocations * Cardinality(Users)

(***************************************************************************)
(* C6: for each user, the time between the return of one invocation and    *)
(* the start of that user's next one is at least 1 second and at most 2    *)
(* seconds: the user is not run again before 1 second has passed and does  *)
(* not stay waiting beyond 2 seconds.                                      *)
(***************************************************************************)
C6_WaitBetweenOneAndTwoSeconds ==
    /\ [](\A u \in Users :
            pc[u] = "waiting" =>
                /\ wait[u] >= WaitMin * TicksPerSecond
                /\ wait[u] <= WaitMax * TicksPerSecond
                /\ elapsed[u] <= WaitMax * TicksPerSecond)
    /\ [][\A u \in Users :
            (Starts(u) /\ completed[u] > 0) =>
                /\ elapsed[u] >= WaitMin * TicksPerSecond
                /\ elapsed[u] <= WaitMax * TicksPerSecond]_vars

C6_Witness ==
    \E u, v \in Users :
        /\ invocations[u] >= 2
        /\ pc[u] = "in_flight"
        /\ elapsed[u] = WaitMin * TicksPerSecond
        /\ invocations[v] >= 2
        /\ pc[v] = "in_flight"
        /\ elapsed[v] = WaitMax * TicksPerSecond

(***************************************************************************)
(* C7: under every interleaving of the users, each user alternates issue   *)
(* request, wait, issue request: it never has two requests in flight and   *)
(* never starts an invocation before the previous one has returned and     *)
(* its wait has run out.                                                   *)
(***************************************************************************)
Alternation ==
    { <<"ready", "in_flight">>, <<"in_flight", "waiting">>,
      <<"waiting", "in_flight">>,
      <<"ready", "stopped">>, <<"in_flight", "stopped">>,
      <<"waiting", "stopped">> }

C7_SequentialPerUser ==
    /\ [](\A u \in Users :
            /\ in_flight[u] <= 1
            /\ (in_flight[u] = 1) <=> (pc[u] = "in_flight"))
    /\ [][\A u \in Users :
            /\ pc'[u] # pc[u] => <<pc[u], pc'[u]>> \in Alternation
            /\ Starts(u) =>
                  /\ in_flight[u] = 0
                  /\ completed[u] = invocations[u]
                  /\ pc[u] = "waiting" => elapsed[u] >= wait[u]]_vars

C7_Witness ==
    \E u \in Users :
        /\ pc[u] = "in_flight"
        /\ invocations[u] >= 2
        /\ \E v \in Users \ {u} : pc[v] = "in_flight"

(***************************************************************************)
(* C8: the outcome of a request does not change what the task does: after  *)
(* a response of any kind the user goes to its wait of 1 to 2 seconds and  *)
(* nothing is sent again for that invocation, so a failed invocation       *)
(* accounts for exactly one request, and the next invocation sends the     *)
(* same request.                                                           *)
(***************************************************************************)
C8_OutcomeIgnored ==
    /\ [][\A u \in Users :
            Returns(u) =>
                /\ pc'[u] = "waiting"
                /\ wait'[u] \in WaitTime
                /\ elapsed'[u] = 0
                /\ sent' = sent
                /\ invocations' = invocations]_vars
    /\ [](\A u \in Users :
            /\ Len(sent[u]) = invocations[u]
            /\ pc[u] # "stopped" => Len(sent[u]) = completed[u] + in_flight[u]
            /\ failed[u] > 0 /\ pc[u] = "in_flight" => elapsed[u] \in WaitTime
            /\ \A i \in 1 .. Len(sent[u]) : sent[u][i] = sent[u][1])

C8_Witness ==
    \E u \in Users :
        /\ failed[u] >= 1
        /\ failed[u] = completed[u]
        /\ invocations[u] >= 2
        /\ pc[u] = "in_flight"

(***************************************************************************)
(* C9: users share no mutable state: a step of the task of user A changes  *)
(* nothing that user B can be seen to be doing and stores nothing beyond   *)
(* the invocation, and the requests B has sent are the same fixed request, *)
(* one per invocation of B, whatever A did and received.                   *)
(***************************************************************************)
C9_NoSharedState ==
    /\ [][\A a \in Users :
            (RunMigration(a) \/ \E o \in Outcomes : PostReturns(a, o)) =>
                /\ stored' = stored
                /\ \A b \in Users \ {a} : View(b)' = View(b)]_vars
    /\ [](stored = << >>)
    /\ [](\A b \in Users :
            sent[b] = [i \in 1 .. invocations[b] |-> BuildRequest(host)])

C9_Witness ==
    \E a \in Users :
        /\ failed[a] >= 1
        /\ completed[a] > failed[a]
        /\ \E b \in Users \ {a} : Len(sent[b]) >= 2 /\ failed[b] = 0

(***************************************************************************)
(* C10: the user has no terminal state of its own: while the framework     *)
(* does not stop it and every request returns, a user goes on to make      *)
(* every further invocation (MaxInvocations of them in the model), also    *)
(* when every response so far was a failure; only the framework's stop     *)
(* ends the loop.                                                          *)
(***************************************************************************)
C10_RunsUntilStopped ==
    /\ \A u \in Users :
          <>(pc[u] = "stopped" \/ invocations[u] = MaxInvocations)
    /\ [][\A u \in Users :
            (pc'[u] = "stopped" /\ pc[u] # "stopped") => StopUser(u)]_vars

C10_Witness ==
    \E u \in Users :
        /\ pc[u] # "stopped"
        /\ invocations[u] = MaxInvocations
        /\ completed[u] >= 1
        /\ failed[u] = completed[u]

=============================================================================
